---- MODULE Spec2Model ----
(***************************************************************************)
(* A model of vnpy_rqdata: the symbol translation to_rq_symbol, the        *)
(* historical data service RqdataDatafeed and the live gateway             *)
(* RqdataGateway.                                                          *)
(*                                                                         *)
(* Python strings are sequences of one-character strings, so that upper(), *)
(* isdigit(), replace() and slicing are computed and not assumed.          *)
(***************************************************************************)
EXTENDS Integers, Sequences, FiniteSets, TLC

\* Longest code drawn as an input of to_rq_symbol.
MaxLen == 4
\* Most rows a provider price call returns.
MaxRows == 2
\* Most push messages the provider delivers.
MaxMsgs == 2
\* Most subscribe calls a streaming client is sent.
MaxCalls == 2

VARIABLES
    \* ---- symbol translation (to_rq_symbol called on its own) ----
    tr_symbol,      \* argument symbol
    tr_exchange,    \* argument exchange
    tr_all,         \* argument all_symbols
    tr_out,         \* what the call did: NotCalled, a return or a raise
    \* ---- RqdataDatafeed ----
    df_username,    \* self.username
    df_password,    \* self.password
    df_inited,      \* self.inited
    df_symbols,     \* self.symbols: <<>> is None, <<S>> the catalog S
    df_call,        \* the last call of the service and what it did
    \* ---- RqdataGateway ----
    gw_client,      \* self.client: 0 is None, i the i-th client created
    gw_thread,      \* self.thread: 0 is None, i the listener of client i
    gw_subscribed,  \* self.subscribed
    gw_futures_map, \* self.futures_map
    gw_symbol_map,  \* self.symbol_map
    gw_pc,          \* where the calling thread is in connect() or close()
    gw_op,          \* the caller's current or last call and what it did
    gw_closed,      \* close() has returned after closing a client
    gw_loaded,      \* the tables of the catalog loads that completed
    \* ---- the provider's streaming clients and the host ----
    gw_clients,     \* per client: closed, subscribe calls, listener thread
    gw_delivered,   \* push messages handed to a listener so far
    gw_contracts,   \* entries given to on_contract
    gw_ticks,       \* ticks given to on_tick, in order
    gw_handled      \* the last handle_msg invocation and what it did

trVars == <<tr_symbol, tr_exchange, tr_all, tr_out>>
dfVars == <<df_username, df_password, df_inited, df_symbols, df_call>>
gwSelf == <<gw_client, gw_thread, gw_subscribed, gw_futures_map, gw_symbol_map>>
gwVars == <<gwSelf, gw_pc, gw_op, gw_closed, gw_loaded, gw_clients,
            gw_delivered, gw_contracts, gw_ticks, gw_handled>>
vars == <<trVars, dfVars, gwVars>>

(***************************************************************************)
(* Strings                                                                 *)
(***************************************************************************)
LowerLetters == <<"a","b","c","d","e","f","g","h","i","j","k","l","m",
                  "n","o","p","q","r","s","t","u","v","w","x","y","z">>
UpperLetters == <<"A","B","C","D","E","F","G","H","I","J","K","L","M",
                  "N","O","P","Q","R","S","T","U","V","W","X","Y","Z">>
DigitChars == {"0","1","2","3","4","5","6","7","8","9"}

Range(s) == {s[i] : i \in 1..Len(s)}

IsDigitChar(c) == c \in DigitChars
IsAlphaChar(c) == c \in Range(LowerLetters) \cup Range(UpperLetters)

\* str.isdigit(): a non-empty string of digits.
IsDigit(s) == Len(s) > 0 /\ \A i \in 1..Len(s) : IsDigitChar(s[i])
\* str.isalpha(): a non-empty string of letters.
IsAlpha(s) == Len(s) > 0 /\ \A i \in 1..Len(s) : IsAlphaChar(s[i])

UpperChar(c) ==
    IF \E i \in 1..26 : LowerLetters[i] = c
    THEN UpperLetters[CHOOSE i \in 1..26 : LowerLetters[i] = c]
    ELSE c
\* str.upper()
Upper(s) == [i \in 1..Len(s) |-> UpperChar(s[i])]

\* str.replace(c, "") for every c of chars.
RECURSIVE Remove(_, _)
Remove(s, chars) ==
    IF s = <<>> THEN <<>>
    ELSE IF Head(s) \in chars THEN Remove(Tail(s), chars)
    ELSE <<Head(s)>> \o Remove(Tail(s), chars)

\* Python slices s[a:] and s[:b] for 0 <= a, b <= len(s).
SliceFrom(s, a) == SubSeq(s, a + 1, Len(s))
SliceTo(s, b) == SubSeq(s, 1, b)

(***************************************************************************)
(* Exchanges (vnpy.trader.constant.Exchange) and their values              *)
(***************************************************************************)
FUTURES_EXCHANGES == {"CFFEX", "SHFE", "CZCE", "DCE", "INE", "GFEX"}
Exchanges == {"SSE", "SZSE", "SGE", "SEHK"} \cup FUTURES_EXCHANGES

ExchangeValue(e) ==
    CASE e = "SSE"   -> <<"S","S","E">>
      [] e = "SZSE"  -> <<"S","Z","S","E">>
      [] e = "SGE"   -> <<"S","G","E">>
      [] e = "SEHK"  -> <<"S","E","H","K">>
      [] e = "CFFEX" -> <<"C","F","F","E","X">>
      [] e = "SHFE"  -> <<"S","H","F","E">>
      [] e = "CZCE"  -> <<"C","Z","C","E">>
      [] e = "DCE"   -> <<"D","C","E">>
      [] e = "INE"   -> <<"I","N","E">>
      [] e = "GFEX"  -> <<"G","F","E","X">>

XSHG == <<"X","S","H","G">>
XSHE == <<"X","S","H","E">>
SGEX == <<"S","G","E","X">>

(***************************************************************************)
(* Outcomes of a call                                                      *)
(***************************************************************************)
NotCalled == [kind |-> "none", value |-> <<>>]
Return(v) == [kind |-> "return", value |-> v]
Raise(e) == [kind |-> "raise", value |-> <<e>>]

(***************************************************************************)
(* to_rq_symbol                                                            *)
(***************************************************************************)
\* The literal list the futures branch compares time_str with.
ContinuousCodes ==
    { <<"8","8">>, <<"8","8","8">>, <<"9","9">>, <<"8","8","9">>,
      <<"8","8","A","2">> }

\* The loop variable count after `for count, word in enumerate(symbol)`
\* with its break at the first digit; symbol is not empty.
EnumerateCount(symbol) ==
    IF \E i \in 1..Len(symbol) : IsDigitChar(symbol[i])
    THEN (CHOOSE i \in 1..Len(symbol) :
            /\ IsDigitChar(symbol[i])
            /\ \A j \in 1..(i - 1) : ~IsDigitChar(symbol[j])) - 1
    ELSE Len(symbol) - 1

\* guess_1 / guess_2: product, the century digit, the year digit, the rest.
CenturyGuess(symbol, count, century) ==
    Upper(SliceTo(symbol, count) \o <<century>> \o <<symbol[count + 1]>>
          \o SliceFrom(symbol, count + 1))

\* A variant that looks the "1" guess up first.
PreferGuess1(symbol, count, all_symbols) ==
    IF CenturyGuess(symbol, count, "1") \in all_symbols
    THEN CenturyGuess(symbol, count, "1")
    ELSE CenturyGuess(symbol, count, "2")

\* The CZCE choice between the two guesses.
PreferGuess2(symbol, count, all_symbols) ==
    IF CenturyGuess(symbol, count, "2") \in all_symbols
    THEN CenturyGuess(symbol, count, "2")
    ELSE CenturyGuess(symbol, count, "1")

\* The futures and options branch, count bound.
DerivativesSymbol(symbol, exchange, all_symbols, count) ==
    LET time_str == SliceFrom(symbol, count) IN
    IF IsDigit(time_str)
    THEN IF exchange # "CZCE" THEN Upper(symbol)
         ELSE IF time_str \in ContinuousCodes THEN symbol
         ELSE PreferGuess2(symbol, count, all_symbols)
    ELSE IF exchange # "CZCE" THEN Upper(Remove(symbol, {"-"}))
         ELSE PreferGuess2(symbol, count, all_symbols)

to_rq_symbol(symbol, exchange, all_symbols) ==
    IF exchange = "SSE" THEN Return(symbol \o <<".">> \o XSHG)
    ELSE IF exchange = "SZSE" THEN Return(symbol \o <<".">> \o XSHE)
    ELSE IF exchange = "SGE"
    THEN Return(Upper(Remove(symbol, {"(", ")", "+"})) \o <<".">> \o SGEX)
    ELSE IF exchange \in FUTURES_EXCHANGES
    THEN IF symbol = <<>>
         \* the loop body never ran: count is unbound at symbol[:count]
         THEN Raise("UnboundLocalError")
         ELSE Return(DerivativesSymbol(symbol, exchange, all_symbols,
                                       EnumerateCount(symbol)))
    ELSE Return(symbol \o <<".">> \o ExchangeValue(exchange))

(***************************************************************************)
(* Specification of the translation on its own: the arguments are drawn,   *)
(* then the function is called once.                                       *)
(***************************************************************************)
\* A code is a product prefix followed by a suffix of at most MaxLen characters.
SymProducts == { <<>>, <<"a">>, <<"A">>, <<"a","P">> }
SymSuffixChars == {"A", "2", "8", "9", "-"}
SymSuffixes == UNION {[1..n -> SymSuffixChars] : n \in 0..MaxLen}
SymInputs == {p \o s : p \in SymProducts, s \in SymSuffixes}
\* One exchange of each class the function tells apart.
SymExchanges == {"SSE", "SZSE", "SGE", "SHFE", "CZCE", "SEHK"}
\* Catalog identifiers the known-symbols argument is drawn from.
KnownPool == { <<"A","2","8">>, <<"A","1","8">>, <<"A","2","8","8">>,
               <<"A","2","8","8","A","2">> }

\* No translation call of its own is under way.
TrParked ==
    /\ tr_symbol = <<>>
    /\ tr_exchange = "SSE"
    /\ tr_all = {}
    /\ tr_out = NotCalled

NoCall ==
    [op |-> "none", symbol |-> <<>>, exchange |-> "SSE", interval |-> "DAILY",
     inited_before |-> FALSE, auth |-> "", ret |-> "none", exc |-> "", rows |-> 0,
     outputs |-> <<>>, price_calls |-> <<>>]

\* A datafeed constructed with credentials and never used.
DfParked ==
    /\ df_username = <<"u">>
    /\ df_password = <<"p">>
    /\ df_inited = FALSE
    /\ df_symbols = <<>>
    /\ df_call = NoCall

\* No frame of all_instruments received yet, by type.
NoFrames ==
    [t \in {"CS", "INDX", "ETF", "Future"} |-> <<>>]

NoOp ==
    [op |-> "none", ret |-> "none", exc |-> "", logs |-> <<>>, auth |-> "",
     catalog |-> "", replay |-> <<>>, channel |-> <<>>, called |-> FALSE,
     type |-> 1, product_name |-> "", frames |-> NoFrames]
NoHandled == [order_book_id |-> <<>>, logs |-> <<>>, ticks |-> <<>>]

\* A gateway as __init__ leaves it.
GwConstructed ==
    /\ gw_client = 0
    /\ gw_thread = 0
    /\ gw_subscribed = {}
    /\ gw_futures_map = {}
    /\ gw_symbol_map = {}
    /\ gw_pc = "idle"
    /\ gw_op = NoOp
    /\ gw_closed = FALSE
    /\ gw_loaded = {}
    /\ gw_clients = <<>>
    /\ gw_delivered = 0
    /\ gw_contracts = {}
    /\ gw_ticks = <<>>
    /\ gw_handled = NoHandled

InitSymbol ==
    /\ tr_symbol \in SymInputs
    /\ tr_exchange \in SymExchanges
    /\ tr_all \in SUBSET KnownPool
    /\ tr_out = NotCalled
    /\ DfParked
    /\ GwConstructed

Translate ==
    /\ tr_out = NotCalled
    /\ tr_out' = to_rq_symbol(tr_symbol, tr_exchange, tr_all)
    /\ UNCHANGED <<tr_symbol, tr_exchange, tr_all>>
    /\ UNCHANGED <<dfVars, gwVars>>

NextSymbol == Translate

SpecSymbol == InitSymbol /\ [][NextSymbol]_vars

(***************************************************************************)
(* Claims about to_rq_symbol                                               *)
(***************************************************************************)
\* The code splits at position i: its first digit is there.
SplitsAt(code, i) ==
    /\ i \in 1..Len(code)
    /\ IsDigitChar(code[i])
    /\ \A j \in 1..(i - 1) : ~IsDigitChar(code[j])

\* upper(product + century + Y + rest) for the code split at i.
GuessOf(code, i, century) ==
    Upper(SubSeq(code, 1, i - 1) \o <<century, code[i]>>
          \o SubSeq(code, i + 1, Len(code)))

\* What C5 says the translation of the code split at i is.
C5Expected(code, i, S) ==
    IF GuessOf(code, i, "2") \in S THEN GuessOf(code, i, "2")
    ELSE GuessOf(code, i, "1")

NumericContinuous ==
    { <<"8","8">>, <<"8","8","8">>, <<"9","9">>, <<"8","8","9">> }
LiteralContinuous == NumericContinuous \cup { <<"8","8","A","2">> }

\* C5 as stated: every CZCE code that splits at its first digit into
\* product + Y + rest is translated to upper(product + "2" + Y + rest) when
\* that is a known symbol and to upper(product + "1" + Y + rest) otherwise.
C5_EveryCzceCodeIsGuessed ==
    (tr_out # NotCalled /\ tr_exchange = "CZCE") =>
        \A i \in 1..Len(tr_symbol) :
            SplitsAt(tr_symbol, i) =>
                tr_out = Return(C5Expected(tr_symbol, i, tr_all))

\* C5 amended: the same for every such CZCE code whose part from the first
\* digit onward is not one of the all-numeric continuous codes "88", "888",
\* "99", "889", which are returned unchanged.
C5_CzceCodeIsGuessedUnlessContinuous ==
    (tr_out # NotCalled /\ tr_exchange = "CZCE") =>
        \A i \in 1..Len(tr_symbol) :
            (/\ SplitsAt(tr_symbol, i)
             /\ SubSeq(tr_symbol, i, Len(tr_symbol)) \notin NumericContinuous)
            => tr_out = Return(C5Expected(tr_symbol, i, tr_all))

\* A lower-case CZCE code translated to its known "2" guess.
C5_Witness ==
    /\ tr_out # NotCalled
    /\ tr_exchange = "CZCE"
    /\ tr_symbol # Upper(tr_symbol)
    /\ \E i \in 1..Len(tr_symbol) :
          /\ SplitsAt(tr_symbol, i)
          /\ SubSeq(tr_symbol, i, Len(tr_symbol)) \notin NumericContinuous
          /\ GuessOf(tr_symbol, i, "2") \in tr_all
          /\ tr_out = Return(GuessOf(tr_symbol, i, "2"))

\* C6 as stated: a CZCE code whose part from the first digit onward is one of
\* "88", "888", "99", "889", "88A2" is returned identical to the input,
\* whatever the known-symbols set holds.
C6_ContinuousCodeUnchanged ==
    (tr_out # NotCalled /\ tr_exchange = "CZCE") =>
        \A i \in 1..Len(tr_symbol) :
            (/\ SplitsAt(tr_symbol, i)
             /\ SubSeq(tr_symbol, i, Len(tr_symbol)) \in LiteralContinuous)
            => tr_out = Return(tr_symbol)

(***************************************************************************)
(* RqdataDatafeed                                                          *)
(***************************************************************************)
\* vnpy.trader.constant.Interval
Intervals == {"MINUTE", "HOUR", "DAILY", "WEEKLY", "TICK"}

INTERVAL_VT2RQ ==
    [i \in {"MINUTE", "HOUR", "DAILY"} |->
        CASE i = "MINUTE" -> "1m" [] i = "HOUR" -> "60m" [] i = "DAILY" -> "1d"]

\* What the provider answers to init() followed by all_instruments(): the
\* catalog's order_book_id column, or an exception of one of the three
\* classes init tells apart.
DfCatalogs ==
    { {},
      { <<"6","0",".","X","S","H","G">>, <<"A","2","8">>, <<"A","8">> },
      { <<"6","0">>, <<"A","1","8">> } }
InitOutcomes ==
    {[kind |-> "ok", catalog |-> c] : c \in DfCatalogs}
    \cup {[kind |-> k, catalog |-> {}] :
            k \in {"RQDataError", "RuntimeError", "Exception"}}

\* What the provider answers to get_price / get_dominant_price: a frame of
\* rows, None, or an exception.
PriceOutcomes ==
    {[kind |-> "rows", rows |-> n] : n \in 0..MaxRows}
    \cup {[kind |-> k, rows |-> 0] : k \in {"None", "RQDataError", "RuntimeError"}}
PriceRaises(price) == price.kind \in {"RQDataError", "RuntimeError"}

\* The service's fields and what a call returned, raised, wrote and asked;
\* auth is the provider's answer when the call asked it to authenticate.
Done(self, ret, exc, rows, outputs, price_calls) ==
    [inited |-> self.inited, symbols |-> self.symbols, auth |-> self.auth,
     ret |-> ret, exc |-> exc, rows |-> rows, outputs |-> outputs,
     price_calls |-> price_calls]

Self(username, password, inited, symbols) ==
    [username |-> username, password |-> password, inited |-> inited,
     symbols |-> symbols, auth |-> ""]

init(self, prov) ==
    IF self.inited THEN Done(self, "True", "", 0, <<>>, <<>>)
    ELSE IF self.username = <<>>
    THEN Done(self, "False", "", 0, <<"username_empty">>, <<>>)
    ELSE IF self.password = <<>>
    THEN Done(self, "False", "", 0, <<"password_empty">>, <<>>)
    ELSE
    LET asked == [self EXCEPT !.auth = prov.kind] IN
    IF prov.kind = "ok"
    THEN Done([asked EXCEPT !.inited = TRUE, !.symbols = <<prov.catalog>>],
              "True", "", 0, <<>>, <<>>)
    ELSE IF prov.kind = "RQDataError"
    THEN Done(asked, "False", "", 0, <<"init_failed">>, <<>>)
    ELSE IF prov.kind = "RuntimeError"
    THEN Done(asked, "False", "", 0, <<"runtime_error">>, <<>>)
    ELSE Done(asked, "False", "", 0, <<"unknown_exception">>, <<>>)

\* `if not self.inited: n = self.init(output)`
EnsureInited(self, prov) ==
    IF ~self.inited THEN init(self, prov)
    ELSE Done(self, "True", "", 0, <<>>, <<>>)

AfterInit(i) == [inited |-> i.inited, symbols |-> i.symbols, auth |-> i.auth]

\* The provider symbol of a direct or tick query.
ResolveSymbol(req, symbols) ==
    IF req.exchange \in {"SSE", "SZSE"} /\ req.symbol \in symbols
    THEN Return(req.symbol)
    ELSE to_rq_symbol(req.symbol, req.exchange, symbols)

\* A variant in which the catalog check lets every symbol through.
CatalogCheckSkipped(rq_symbol, symbols) == FALSE

\* `if rq_symbol not in self.symbols`
NotInCatalog(rq_symbol, symbols) == rq_symbol \notin symbols

\* The provider call and the list built from its frame.
PriceCall(self, fn, rq_symbol, frequency, symbol, price) ==
    LET call == [fn |-> fn, symbol |-> rq_symbol, frequency |-> frequency,
                 open_interest |-> ~IsDigit(symbol), answer |-> price.kind] IN
    IF PriceRaises(price)
    THEN Done(self, "raise", price.kind, 0, <<>>, <<call>>)
    ELSE Done(self, "list", "", price.rows, <<>>, <<call>>)

_query_bar_history(self, req, prov, price) ==
    LET i == EnsureInited(self, prov) IN
    IF i.ret = "False" THEN Done(AfterInit(i), "list", "", 0, i.outputs, <<>>)
    ELSE
    LET me == AfterInit(i)
        rq == ResolveSymbol(req, me.symbols[1]) IN
    IF rq.kind = "raise"
    THEN Done(me, "raise", rq.value[1], 0, <<>>, <<>>)
    ELSE IF NotInCatalog(rq.value, me.symbols[1])
    THEN Done(me, "list", "", 0, <<"unsupported_symbol">>, <<>>)
    ELSE IF req.interval \notin DOMAIN INTERVAL_VT2RQ
    THEN Done(me, "list", "", 0, <<"unsupported_interval">>, <<>>)
    ELSE PriceCall(me, "get_price", rq.value, INTERVAL_VT2RQ[req.interval],
                   req.symbol, price)

query_tick_history(self, req, prov, price) ==
    LET i == EnsureInited(self, prov) IN
    IF i.ret = "False" THEN Done(AfterInit(i), "list", "", 0, i.outputs, <<>>)
    ELSE
    LET me == AfterInit(i)
        rq == ResolveSymbol(req, me.symbols[1]) IN
    IF rq.kind = "raise"
    THEN Done(me, "raise", rq.value[1], 0, <<>>, <<>>)
    ELSE IF NotInCatalog(rq.value, me.symbols[1])
    THEN Done(me, "list", "", 0, <<"unsupported_symbol">>, <<>>)
    ELSE PriceCall(me, "get_price", rq.value, "tick", req.symbol, price)

_query_dominant_history(self, req, prov, price) ==
    LET i == EnsureInited(self, prov) IN
    IF i.ret = "False" THEN Done(AfterInit(i), "list", "", 0, i.outputs, <<>>)
    ELSE
    LET me == AfterInit(i) IN
    IF req.interval \notin DOMAIN INTERVAL_VT2RQ
    THEN Done(me, "list", "", 0, <<"unsupported_interval">>, <<>>)
    ELSE PriceCall(me, "get_dominant_price", Upper(req.symbol),
                   INTERVAL_VT2RQ[req.interval], req.symbol, price)

query_bar_history(self, req, prov, price) ==
    IF req.exchange \in FUTURES_EXCHANGES /\ IsAlpha(req.symbol)
    THEN _query_dominant_history(self, req, prov, price)
    ELSE _query_bar_history(self, req, prov, price)

\* ---- the calls a user of the service makes ----
DfSymbols == { <<>>, <<"6","0">>, <<"a","8">>, <<"r","b">> }
DfExchanges == {"SSE", "SHFE", "CZCE", "SEHK"}
Requests ==
    [symbol : DfSymbols, exchange : DfExchanges, interval : Intervals]

DfSelf == Self(df_username, df_password, df_inited, df_symbols)

Record(op, req, d) ==
    /\ df_inited' = d.inited
    /\ df_symbols' = d.symbols
    /\ df_call' = [op |-> op, symbol |-> req.symbol, exchange |-> req.exchange,
                   interval |-> req.interval, inited_before |-> df_inited,
                   auth |-> d.auth, ret |-> d.ret, exc |-> d.exc, rows |-> d.rows,
                   outputs |-> d.outputs, price_calls |-> d.price_calls]
    /\ UNCHANGED <<df_username, df_password>>
    /\ UNCHANGED <<trVars, gwVars>>

NoRequest == [symbol |-> <<>>, exchange |-> "SSE", interval |-> "DAILY"]

CallInit(prov) == Record("init", NoRequest, init(DfSelf, prov))

CallQueryBarHistory(req, prov, price) ==
    Record("query_bar_history", req, query_bar_history(DfSelf, req, prov, price))

CallQueryTickHistory(req, prov, price) ==
    Record("query_tick_history", req,
           query_tick_history(DfSelf, req, prov, price))

InitDatafeed ==
    /\ df_username \in {<<>>, <<"u">>}
    /\ df_password \in {<<>>, <<"p">>}
    /\ df_inited = FALSE
    /\ df_symbols = <<>>
    /\ df_call = NoCall
    /\ TrParked
    /\ GwConstructed

\* The provider is asked to authenticate only by a service not yet
\* initialized.
ProviderAnswers ==
    IF df_inited THEN {[kind |-> "ok", catalog |-> {}]} ELSE InitOutcomes

\* The provider answers a price call only when the query issues one.
NoPrice == [kind |-> "None", rows |-> 0]
PriceAnswers(d) == IF d.price_calls = <<>> THEN {NoPrice} ELSE PriceOutcomes

NextDatafeed ==
    \/ \E prov \in ProviderAnswers : CallInit(prov)
    \/ \E req \in Requests, prov \in ProviderAnswers :
          \E price \in PriceAnswers(query_bar_history(DfSelf, req, prov, NoPrice)) :
              CallQueryBarHistory(req, prov, price)
    \/ \E req \in Requests, prov \in ProviderAnswers :
          \E price \in PriceAnswers(query_tick_history(DfSelf, req, prov, NoPrice)) :
              CallQueryTickHistory(req, prov, price)

SpecDatafeed == InitDatafeed /\ [][NextDatafeed]_vars

(***************************************************************************)
(* Claims about RqdataDatafeed                                             *)
(***************************************************************************)
IsQuery == df_call.op \in {"query_bar_history", "query_tick_history"}
PriceIssued == df_call.price_calls # <<>>
PriceFailed ==
    /\ PriceIssued
    /\ df_call.price_calls[1].answer \in {"RQDataError", "RuntimeError"}
ReturnedEmpty == df_call.ret = "list" /\ df_call.rows = 0
LastRequest ==
    [symbol |-> df_call.symbol, exchange |-> df_call.exchange,
     interval |-> df_call.interval]

\* C3 as stated: a historical query whose provider price call fails with a
\* provider data error or a runtime fault returns an empty sequence and
\* writes a message; the fault does not reach the caller.
C3_PriceFaultIsDowngraded ==
    (IsQuery /\ PriceFailed) =>
        (ReturnedEmpty /\ df_call.outputs # <<>>)

\* C4 as stated: a bar-history request whose interval is not minute, hour or
\* daily returns an empty sequence, raises nothing and issues no price call,
\* for every code, exchange and state of the service.
C4_UnsupportedIntervalIsEmpty ==
    (df_call.op = "query_bar_history"
        /\ df_call.interval \notin {"MINUTE", "HOUR", "DAILY"}) =>
        (ReturnedEmpty /\ ~PriceIssued)

\* The last call met a failing init: a credential is empty or the provider
\* answered with an exception.
InitFailed ==
    /\ df_call.op # "none"
    /\ ~df_call.inited_before
    /\ \/ df_username = <<>>
       \/ df_password = <<>>
       \/ df_call.auth \in {"RQDataError", "RuntimeError", "Exception"}

\* The last call was a direct bar query or a tick query (not a dominant one).
IsDirectOrTick ==
    \/ df_call.op = "query_tick_history"
    \/ /\ df_call.op = "query_bar_history"
       /\ ~(df_call.exchange \in FUTURES_EXCHANGES /\ IsAlpha(df_call.symbol))

EXCHANGE_VT2RQDATA ==
    [e \in {"SSE", "SZSE", "CFFEX", "SHFE", "DCE", "CZCE", "INE", "GFEX"} |->
        CASE e = "SSE" -> XSHG [] e = "SZSE" -> XSHE [] OTHER -> ExchangeValue(e)]

\* EXCHANGE_RQDATA2VT.get(rq_exchange, None)
EXCHANGE_RQDATA2VT(rq_exchange) ==
    IF \E e \in DOMAIN EXCHANGE_VT2RQDATA : EXCHANGE_VT2RQDATA[e] = rq_exchange
    THEN CHOOSE e \in DOMAIN EXCHANGE_VT2RQDATA :
            EXCHANGE_VT2RQDATA[e] = rq_exchange
    ELSE "None"

PRODUCT_MAP ==
    [t \in {"CS", "INDX", "ETF", "LOF", "FUND", "Future", "Option",
            "Convertible", "Repo"} |->
        CASE t = "CS" -> "EQUITY" [] t = "INDX" -> "INDEX"
          [] t \in {"ETF", "LOF", "FUND"} -> "FUND"
          [] t = "Future" -> "FUTURES" [] t = "Option" -> "OPTION"
          [] OTHER -> "BOND"]

\* A dict is a set of <<key, value>> pairs with distinct keys.
DictKeys(d) == {p[1] : p \in d}
DictGet(d, k) == (CHOOSE p \in d : p[1] = k)[2]
DictPut(d, k, v) == {p \in d : p[1] # k} \cup {<<k, v>>}

\* str.split(".")
RECURSIVE SplitDot(_)
SplitDot(s) ==
    IF \A i \in 1..Len(s) : s[i] # "." THEN <<s>>
    ELSE LET i == CHOOSE k \in 1..Len(s) :
                    s[k] = "." /\ \A j \in 1..(k - 1) : s[j] # "."
         IN <<SubSeq(s, 1, i - 1)>> \o SplitDot(SubSeq(s, i + 1, Len(s)))

\* ---- subscribe: the channel of a request ----
TICK_ == <<"t","i","c","k","_">>

Channel(req) ==
    IF req.exchange \in {"SSE", "SZSE"}
    THEN TICK_ \o req.symbol \o <<".">> \o EXCHANGE_VT2RQDATA[req.exchange]
    ELSE TICK_ \o Upper(req.symbol)

\* self.futures_map after subscribe(req)
FuturesMapAfter(futures_map, req) ==
    IF req.exchange \in {"SSE", "SZSE"} THEN futures_map
    ELSE DictPut(futures_map, Upper(req.symbol), <<req.symbol, req.exchange>>)

\* ---- query_contract ----
ContractTypes == <<"CS", "INDX", "ETF", "Future">>

\* size, pricetick (in thousandths) and product_name of a product; the log
\* line that ends a type is told by the product_name it carries.
ProductTerms(product, tp) ==
    CASE product = "EQUITY" -> [size |-> 1, pricetick |-> 10, name |-> "stock"]
      [] product = "FUND" -> [size |-> 1, pricetick |-> 1, name |-> "fund"]
      [] product = "INDEX" -> [size |-> 1, pricetick |-> 10, name |-> "index"]
      [] product = "FUTURES" ->
            [size |-> tp.contract_multiplier, pricetick |-> 10,
             name |-> "futures"]

\* One row of the frame of type t; st is the call's state so far.
ContractRow(st, t, tp) ==
    LET parts == SplitDot(tp.order_book_id)
        symbol == IF t = "INDX" THEN parts[1] ELSE tp.trading_code
        exchange == IF t = "INDX" THEN EXCHANGE_RQDATA2VT(parts[2])
                    ELSE EXCHANGE_RQDATA2VT(tp.exchange)
    IN
    IF t = "INDX" /\ Len(parts) # 2
    THEN [st EXCEPT !.ret = "raise", !.exc = "ValueError"]
    ELSE IF exchange = "None" THEN st
    ELSE
    LET terms == ProductTerms(PRODUCT_MAP[tp.type], tp)
        contract == [symbol |-> symbol, exchange |-> exchange,
                     name |-> tp.symbol, product |-> PRODUCT_MAP[tp.type],
                     size |-> terms.size, pricetick |-> terms.pricetick,
                     min_volume |-> tp.round_lot]
    IN [st EXCEPT !.contracts = @ \cup {contract},
                  !.symbol_map = DictPut(@, tp.order_book_id, contract),
                  !.product_name = terms.name]

RECURSIVE ContractRows(_, _, _)
ContractRows(st, t, rows) ==
    IF rows = <<>> \/ st.ret = "raise" THEN st
    ELSE ContractRows(ContractRow(st, t, Head(rows)), t, Tail(rows))

\* One pass of the outer loop, for type t; answer is what all_instruments
\* gives for each type, or the type at which it raises.
ContractType(st, t, answer) ==
    IF answer.raise_at = t
    THEN [st EXCEPT !.ret = "raise", !.exc = "RQDataError"]
    ELSE
    LET after == ContractRows(st, t, answer.rows[t]) IN
    IF after.ret = "raise" THEN after
    ELSE IF after.product_name = ""
    \* product_name is unbound at the write_log that ends the type
    THEN [after EXCEPT !.ret = "raise", !.exc = "UnboundLocalError"]
    ELSE [after EXCEPT !.logs = Append(@, after.product_name)]

\* The types from the k-th on.
RECURSIVE ContractTypesFrom(_, _, _)
ContractTypesFrom(st, k, answer) ==
    IF k > Len(ContractTypes) \/ st.ret = "raise" THEN st
    ELSE ContractTypesFrom(ContractType(st, ContractTypes[k], answer),
                           k + 1, answer)

query_contract(symbol_map, contracts, answer) ==
    ContractTypesFrom(
        [symbol_map |-> symbol_map, contracts |-> contracts, logs |-> <<>>,
         product_name |-> "", ret |-> "return", exc |-> ""],
        1, answer)

\* ---- handle_msg ----
NoTick == [symbol |-> <<>>, exchange |-> "None", name |-> "", last_price |-> 0]

\* A variant that dispatches a tick for an unknown instrument too.
handle_msg_unchecked(symbol_map, data) ==
    IF data.order_book_id \notin DictKeys(symbol_map)
    THEN [logs |-> <<>>, ticks |-> <<[NoTick EXCEPT !.last_price = data.last]>>]
    ELSE
    LET contract == DictGet(symbol_map, data.order_book_id) IN
    [logs |-> <<>>,
     ticks |-> <<[symbol |-> contract.symbol, exchange |-> contract.exchange,
                  name |-> contract.name, last_price |-> data.last]>>]

\* What one invocation logs and hands to on_tick.
handle_msg(symbol_map, data) ==
    IF data.order_book_id \notin DictKeys(symbol_map)
    THEN [logs |-> <<"unsupported_contract">>, ticks |-> <<>>]
    ELSE
    LET contract == DictGet(symbol_map, data.order_book_id) IN
    [logs |-> <<>>,
     ticks |-> <<[symbol |-> contract.symbol, exchange |-> contract.exchange,
                  name |-> contract.name, last_price |-> data.last]>>]

(***************************************************************************)
(* RqdataGateway: the calling thread                                       *)
(***************************************************************************)
Begin(op) == [NoOp EXCEPT !.op = op]

\* A variant whose except clause lacks the return.
connect_auth_no_return(auth) ==
    IF auth = "error"
    THEN [pc |-> "connect_query", ret |-> "pending", logs |-> <<"init_failed">>]
    ELSE [pc |-> "connect_query", ret |-> "pending", logs |-> <<>>]

\* connect() after init(username, password) answered.
connect_auth(auth) ==
    IF auth = "error"
    THEN [pc |-> "idle", ret |-> "return", logs |-> <<"init_failed">>]
    ELSE [pc |-> "connect_query", ret |-> "pending", logs |-> <<>>]

\* A variant of the guard that never finds a client.
connect_guard_absent(client) == FALSE

\* connect(): `if self.client`, the guard that ends the call at once.
connect_guard(client) == client # 0

\* connect() up to and including init(): the no-op of a gateway that holds a
\* client, the logged return of a failed authentication.
ConnectBegin(auth) ==
    /\ gw_pc = "idle"
    /\ IF connect_guard(gw_client)
       THEN /\ gw_op' = [Begin("connect") EXCEPT !.ret = "return"]
            /\ gw_pc' = "idle"
       ELSE LET a == connect_auth(auth) IN
            /\ gw_op' = [Begin("connect") EXCEPT
                            !.auth = auth, !.ret = a.ret, !.logs = a.logs]
            /\ gw_pc' = a.pc
    /\ UNCHANGED <<gwSelf, gw_closed, gw_loaded, gw_clients, gw_delivered,
                   gw_contracts, gw_ticks, gw_handled>>
    /\ UNCHANGED <<trVars, dfVars>>

\* connect(): self.query_contract(), one all_instruments call and its rows
\* at a step, each row put into self.symbol_map as it is read; an exception
\* leaves connect(). gw_op.frames keeps the frames this call received, and a
\* call that returns adds to gw_loaded the table those frames make up.
ConnectQueryContract(answer) ==
    /\ gw_pc = "connect_query"
    /\ LET t == ContractTypes[gw_op.type]
           q == ContractType(
                  [symbol_map |-> gw_symbol_map, contracts |-> gw_contracts,
                   logs |-> <<>>, product_name |-> gw_op.product_name,
                   ret |-> "return", exc |-> ""],
                  t, answer)
           frames == [gw_op.frames EXCEPT ![t] = answer.rows[t]]
           last == gw_op.type = Len(ContractTypes)
       IN
       /\ gw_symbol_map' = q.symbol_map
       /\ gw_contracts' = q.contracts
       /\ gw_op' = [gw_op EXCEPT
                       !.logs = @ \o q.logs,
                       !.product_name = q.product_name,
                       !.frames = IF q.ret = "raise" THEN @ ELSE frames,
                       !.type = IF q.ret = "raise" \/ last THEN @ ELSE @ + 1,
                       !.catalog = IF q.ret = "raise" THEN "raise"
                                   ELSE IF last THEN "ok" ELSE @,
                       !.ret = IF q.ret = "raise" THEN "raise" ELSE "pending",
                       !.exc = q.exc]
       /\ gw_pc' = IF q.ret = "raise" THEN "idle"
                   ELSE IF last THEN "connect_listen" ELSE "connect_query"
       /\ gw_loaded' =
             IF q.ret = "return" /\ last
             THEN gw_loaded \cup
                    {query_contract({}, {}, [rows |-> frames,
                                             raise_at |-> ""]).symbol_map}
             ELSE gw_loaded
    /\ UNCHANGED <<gw_client, gw_thread, gw_subscribed, gw_futures_map,
                   gw_closed, gw_clients, gw_delivered, gw_ticks, gw_handled>>
    /\ UNCHANGED <<trVars, dfVars>>

\* A client as LiveMarketDataClient() and listen() leave it: open, no call
\* received, its listener waiting for a push.
NewClient ==
    [closed |-> FALSE, calls |-> <<>>, lpc |-> "wait",
     data |-> [order_book_id |-> <<>>, last |-> 0]]

\* connect(): the client is created and its listening thread started.
ConnectListen ==
    /\ gw_pc = "connect_listen"
    /\ gw_clients' = Append(gw_clients, NewClient)
    /\ gw_client' = Len(gw_clients) + 1
    /\ gw_thread' = Len(gw_clients) + 1
    /\ gw_pc' = "connect_replay"
    /\ UNCHANGED <<gw_subscribed, gw_futures_map, gw_symbol_map, gw_op,
                   gw_closed, gw_loaded, gw_delivered, gw_contracts,
                   gw_ticks, gw_handled>>
    /\ UNCHANGED <<trVars, dfVars>>

\* The replay loop: its body reads self.clicent, an attribute the gateway
\* does not have, so the first iteration raises before any call is made.
replay(subscribed) ==
    IF subscribed = {}
    THEN [calls |-> <<>>, ret |-> "return", exc |-> ""]
    ELSE [calls |-> <<>>, ret |-> "raise", exc |-> "AttributeError"]

\* connect(): the replay of self.subscribed and the closing log line.
ConnectReplay ==
    /\ gw_pc = "connect_replay"
    /\ LET r == replay(gw_subscribed) IN
       /\ gw_clients' = [gw_clients EXCEPT ![gw_client].calls = @ \o r.calls]
       /\ gw_op' = [gw_op EXCEPT
                       !.replay = r.calls, !.ret = r.ret, !.exc = r.exc,
                       !.logs = IF r.ret = "return" THEN Append(@, "init_ok")
                                ELSE @]
    /\ gw_pc' = "idle"
    /\ UNCHANGED <<gwSelf, gw_closed, gw_loaded, gw_delivered, gw_contracts,
                   gw_ticks, gw_handled>>
    /\ UNCHANGED <<trVars, dfVars>>

\* subscribe(req)
Subscribe(req) ==
    /\ gw_pc = "idle"
    /\ gw_client # 0 => Len(gw_clients[gw_client].calls) < MaxCalls
    /\ gw_futures_map' = FuturesMapAfter(gw_futures_map, req)
    /\ gw_subscribed' = gw_subscribed \cup {Channel(req)}
    /\ gw_clients' =
          IF gw_client # 0
          THEN [gw_clients EXCEPT ![gw_client].calls = Append(@, Channel(req))]
          ELSE gw_clients
    /\ gw_op' = [Begin("subscribe") EXCEPT
                    !.ret = "return", !.channel = Channel(req),
                    !.called = (gw_client # 0)]
    /\ UNCHANGED <<gw_client, gw_thread, gw_symbol_map, gw_pc, gw_closed,
                   gw_loaded, gw_delivered, gw_contracts, gw_ticks,
                   gw_handled>>
    /\ UNCHANGED <<trVars, dfVars>>

\* close(): self.client.close(), or nothing without a client.
CloseBegin ==
    /\ gw_pc = "idle"
    /\ IF gw_client # 0
       THEN /\ gw_clients' = [gw_clients EXCEPT ![gw_client].closed = TRUE]
            /\ gw_op' = [Begin("close") EXCEPT !.ret = "pending"]
            /\ gw_pc' = "close_join"
       ELSE /\ gw_op' = [Begin("close") EXCEPT !.ret = "return"]
            /\ UNCHANGED <<gw_clients, gw_pc>>
    /\ UNCHANGED <<gwSelf, gw_closed, gw_loaded, gw_delivered, gw_contracts,
                   gw_ticks, gw_handled>>
    /\ UNCHANGED <<trVars, dfVars>>

\* A variant of join() that does not wait.
JoinSkipped(thread) == TRUE

\* thread.join() returns once the thread has ended.
Joined(thread) == gw_clients[thread].lpc = "done"

\* close(): self.thread.join(), then the return.
CloseJoin ==
    /\ gw_pc = "close_join"
    /\ Joined(gw_thread)
    /\ gw_pc' = "idle"
    /\ gw_op' = [gw_op EXCEPT !.ret = "return"]
    /\ gw_closed' = TRUE
    /\ UNCHANGED <<gwSelf, gw_loaded, gw_clients, gw_delivered, gw_contracts,
                   gw_ticks, gw_handled>>
    /\ UNCHANGED <<trVars, dfVars>>

(***************************************************************************)
(* RqdataGateway: the listening thread of a client                         *)
(***************************************************************************)
\* The thread takes a push and invokes the handler.
ListenerReceive(t, data) ==
    /\ gw_clients[t].lpc = "wait"
    /\ gw_delivered < MaxMsgs
    /\ gw_clients' = [gw_clients EXCEPT ![t].lpc = "handling", ![t].data = data]
    /\ gw_delivered' = gw_delivered + 1
    /\ UNCHANGED <<gwSelf, gw_pc, gw_op, gw_closed, gw_loaded, gw_contracts,
                   gw_ticks, gw_handled>>
    /\ UNCHANGED <<trVars, dfVars>>

\* The body of handle_msg, to its return.
HandleMsg(t) ==
    /\ gw_clients[t].lpc = "handling"
    /\ LET h == handle_msg(gw_symbol_map, gw_clients[t].data) IN
       /\ gw_ticks' = gw_ticks \o h.ticks
       /\ gw_handled' = [order_book_id |-> gw_clients[t].data.order_book_id,
                         logs |-> h.logs, ticks |-> h.ticks]
    /\ gw_clients' = [gw_clients EXCEPT ![t].lpc = "wait"]
    /\ UNCHANGED <<gwSelf, gw_pc, gw_op, gw_closed, gw_loaded, gw_delivered,
                   gw_contracts>>
    /\ UNCHANGED <<trVars, dfVars>>

\* The thread ends once its client is closed.
ListenerExit(t) ==
    /\ gw_clients[t].lpc = "wait"
    /\ gw_clients[t].closed
    /\ gw_clients' = [gw_clients EXCEPT ![t].lpc = "done"]
    /\ UNCHANGED <<gwSelf, gw_pc, gw_op, gw_closed, gw_loaded, gw_delivered,
                   gw_contracts, gw_ticks, gw_handled>>
    /\ UNCHANGED <<trVars, dfVars>>

(***************************************************************************)
(* RqdataGateway: inputs and specification                                 *)
(***************************************************************************)
AuthAnswers == {"ok", "error"}

SubRequests ==
    { [symbol |-> <<"6","0">>, exchange |-> "SSE"],
      [symbol |-> <<"r","b","1">>, exchange |-> "SHFE"],
      [symbol |-> <<"R","B","1">>, exchange |-> "SHFE"] }

\* Rows of all_instruments.
CsRow ==
    [order_book_id |-> <<"6","0",".","X","S","H","G">>,
     trading_code |-> <<"6","0">>, exchange |-> XSHG, symbol |-> "bank",
     type |-> "CS", round_lot |-> 100, contract_multiplier |-> 1]
HkRow ==
    [order_book_id |-> <<"7","0",".","X","H","K","G">>,
     trading_code |-> <<"7","0">>, exchange |-> <<"X","H","K","G">>,
     symbol |-> "hk", type |-> "CS", round_lot |-> 100,
     contract_multiplier |-> 1]
IndexRow ==
    [order_book_id |-> <<"3","0",".","X","S","H","G">>,
     trading_code |-> <<"3","0">>, exchange |-> XSHG, symbol |-> "index",
     type |-> "INDX", round_lot |-> 1, contract_multiplier |-> 1]
EtfRow ==
    [order_book_id |-> <<"5","1",".","X","S","H","G">>,
     trading_code |-> <<"5","1">>, exchange |-> XSHG, symbol |-> "etf",
     type |-> "ETF", round_lot |-> 100, contract_multiplier |-> 1]
FutureRow ==
    [order_book_id |-> <<"R","B","1">>, trading_code |-> <<"r","b","1">>,
     exchange |-> ExchangeValue("SHFE"), symbol |-> "rebar",
     type |-> "Future", round_lot |-> 1, contract_multiplier |-> 10]

Frames(cs, indx, etf, future) ==
    [t \in Range(ContractTypes) |->
        CASE t = "CS" -> cs [] t = "INDX" -> indx [] t = "ETF" -> etf
          [] t = "Future" -> future]

\* What the provider answers to the four all_instruments calls.
CatalogAnswers ==
    { [rows |-> Frames(<<CsRow, HkRow>>, <<IndexRow>>, <<EtfRow>>, <<FutureRow>>),
       raise_at |-> ""],
      [rows |-> Frames(<<CsRow>>, <<>>, <<>>, <<FutureRow>>), raise_at |-> ""],
      [rows |-> Frames(<<HkRow>>, <<IndexRow>>, <<>>, <<FutureRow>>),
       raise_at |-> ""],
      [rows |-> Frames(<<CsRow>>, <<IndexRow>>, <<EtfRow>>, <<FutureRow>>),
       raise_at |-> "Future"] }

\* Push messages: two instruments of the catalog and one outside it.
Pushes ==
    { [order_book_id |-> id, last |-> 5] :
        id \in { <<"6","0",".","X","S","H","G">>, <<"R","B","1">>,
                 <<"X","X","9">> } }

InitGateway ==
    /\ GwConstructed
    /\ TrParked
    /\ DfParked

NextGateway ==
    \/ \E auth \in AuthAnswers : ConnectBegin(auth)
    \/ \E answer \in CatalogAnswers : ConnectQueryContract(answer)
    \/ ConnectListen
    \/ ConnectReplay
    \/ \E req \in SubRequests : Subscribe(req)
    \/ CloseBegin
    \/ CloseJoin
    \/ \E t \in 1..Len(gw_clients), data \in Pushes : ListenerReceive(t, data)
    \/ \E t \in 1..Len(gw_clients) : HandleMsg(t)
    \/ \E t \in 1..Len(gw_clients) : ListenerExit(t)

SpecGateway == InitGateway /\ [][NextGateway]_vars

(***************************************************************************)
(* Claims about RqdataGateway                                              *)
(***************************************************************************)
\* How often channel ch was called in the sequence calls.
CallCount(calls, ch) == Cardinality({i \in 1..Len(calls) : calls[i] = ch})

ConnectFinished == gw_pc = "idle" /\ gw_op.op = "connect"

\* The gateway between calls. Disconnected: it holds no client; Closed:
\* close() has returned on its client; Connected otherwise.
GatewayState ==
    IF gw_client = 0 THEN "Disconnected"
    ELSE IF gw_closed THEN "Closed"
    ELSE "Connected"

\* C1 as stated: a connect() whose authentication and catalog query succeed
\* issues, in its replay step, exactly one subscribe call on the new client
\* for each channel subscribed beforehand, then completes normally with the
\* gateway Connected.
C1_ReplayCallsEachChannelOnce ==
    (ConnectFinished /\ gw_op.auth = "ok" /\ gw_op.catalog = "ok") =>
        /\ gw_op.ret = "return"
        /\ GatewayState = "Connected"
        /\ \A ch \in gw_subscribed : CallCount(gw_op.replay, ch) = 1
        /\ \A i \in 1..Len(gw_op.replay) : gw_op.replay[i] \in gw_subscribed
        /\ gw_clients[gw_client].calls = gw_op.replay

ListenersEnded == \A t \in 1..Len(gw_clients) : gw_clients[t].lpc = "done"

\* C2: once close() has returned on a gateway that holds a client, the
\* listening thread has ended: no handle_msg invocation is running, none
\* starts, and nothing more reaches on_tick.
C2_NoHandlerAfterClose ==
    /\ [](gw_closed => ListenersEnded)
    /\ [][gw_closed =>
            /\ \A t \in 1..Len(gw_clients) :
                  gw_clients'[t].lpc = gw_clients[t].lpc
            /\ UNCHANGED <<gw_ticks, gw_handled, gw_delivered>>]_vars

\* close() has returned on a gateway whose listener had dispatched a tick.
C2_Witness ==
    /\ gw_closed
    /\ gw_pc = "idle"
    /\ gw_op.op = "close"
    /\ gw_op.ret = "return"
    /\ gw_ticks # <<>>

\* C7 as stated: subscribe adds the channel to the SubscriptionSet and calls
\* the live client if and only if the gateway is Connected; Disconnected or
\* Closed, it makes no call on any client. (subscribe changes neither the
\* client reference nor whether close() has returned, so the state after it
\* is the state it ran in.)
C7_SubscribeCallsOnlyWhenConnected ==
    gw_op.op = "subscribe" =>
        /\ gw_op.channel \in gw_subscribed
        /\ gw_op.called <=> (GatewayState = "Connected")

\* The step is a connect() that ends at its failed authentication.
AuthFailedStep ==
    /\ gw_op' # gw_op
    /\ gw_op'.op = "connect"
    /\ gw_op'.auth = "error"

\* C8: a connect() whose authentication fails logs the failure and returns
\* without raising; it makes no catalog query, publishes no entry, creates no
\* client or thread, issues no subscribe call and leaves the SubscriptionSet
\* alone; the gateway stays without a client, and every connect() on a
\* gateway without a client asks for authentication.
C8_AuthFailureLeavesDisconnected ==
    [][/\ AuthFailedStep =>
            /\ gw_op'.ret = "return"
            /\ gw_op'.logs = <<"init_failed">>
            /\ gw_op'.catalog = ""
            /\ gw_op'.replay = <<>>
            /\ gw_pc' = "idle"
            /\ gw_client' = 0
            /\ gw_thread' = 0
            /\ UNCHANGED <<gwSelf, gw_clients, gw_contracts, gw_closed>>
       /\ (gw_pc = "idle" /\ gw_client = 0 /\ gw_op' # gw_op
             /\ gw_op'.op = "connect") => gw_op'.auth \in AuthAnswers
      ]_vars

\* A failed authentication on a gateway with a subscription recorded.
C8_Witness ==
    /\ ConnectFinished
    /\ gw_op.auth = "error"
    /\ gw_op.ret = "return"
    /\ gw_subscribed # {}
    /\ gw_client = 0

\* Thread t returns from handle_msg in this step.
HandlerReturns(t) ==
    /\ gw_clients[t].lpc = "handling"
    /\ gw_clients'[t].lpc # "handling"

\* The tick carries the identity of the catalog entry under the message's id.
TickOfEntry(tick, data) ==
    LET entry == DictGet(gw_symbol_map, data.order_book_id) IN
    /\ tick.symbol = entry.symbol
    /\ tick.exchange = entry.exchange
    /\ tick.name = entry.name

\* C10: handle_msg on a message whose order_book_id is no key of the catalog
\* table writes a log entry, dispatches no tick and leaves the table, the
\* SubscriptionSet, the FuturesSymbolMap and the client and thread references
\* alone; every tick dispatched carries the code, exchange and name of the
\* entry stored under the message's order_book_id.
C10_UnknownPushIsDropped ==
    [][/\ \A t \in 1..Len(gw_clients) :
            (/\ HandlerReturns(t)
             /\ gw_clients[t].data.order_book_id \notin DictKeys(gw_symbol_map))
            => /\ gw_handled'.logs # <<>>
               /\ gw_handled'.ticks = <<>>
               /\ gw_ticks' = gw_ticks
               /\ UNCHANGED <<gwSelf, gw_contracts>>
       /\ gw_ticks' # gw_ticks =>
            \E t \in 1..Len(gw_clients) :
                /\ HandlerReturns(t)
                /\ gw_clients[t].data.order_book_id \in DictKeys(gw_symbol_map)
                /\ Len(gw_ticks') = Len(gw_ticks) + 1
                /\ SubSeq(gw_ticks', 1, Len(gw_ticks)) = gw_ticks
                /\ TickOfEntry(gw_ticks'[Len(gw_ticks')], gw_clients[t].data)
      ]_vars

\* An unknown push was logged and dropped by a gateway with a catalog that
\* had dispatched a tick before.
C10_Witness ==
    /\ gw_handled.order_book_id \notin DictKeys(gw_symbol_map)
    /\ gw_handled.logs = <<"unsupported_contract">>
    /\ gw_symbol_map # {}
    /\ gw_ticks # <<>>


\* A listener is inside handle_msg.
Handling == \E t \in 1..Len(gw_clients) : gw_clients[t].lpc = "handling"

\* C11 as stated: whenever handle_msg runs, the table it looks up is the
\* complete table of a catalog load, the previous connection's or the new
\* one's, never a table that is partly built or that in-place insertion has
\* mixed from several loads.
C11_HandlerReadsCompleteTable ==
    Handling => gw_symbol_map \in gw_loaded

\* Clients that are not closed, listening threads that have not ended, and
\* threads inside handle_msg.
AliveClients == {i \in 1..Len(gw_clients) : ~gw_clients[i].closed}
AliveThreads == {i \in 1..Len(gw_clients) : gw_clients[i].lpc # "done"}
HandlingThreads == {i \in 1..Len(gw_clients) : gw_clients[i].lpc = "handling"}

\* The caller enters connect() on a gateway that holds a client.
ConnectOnHeldClient ==
    /\ gw_pc = "idle"
    /\ gw_client # 0
    /\ gw_op' # gw_op
    /\ gw_op'.op = "connect"

\* C12: over any sequence of connect, subscribe and close calls at most one
\* streaming client and at most one listening thread are alive at a time and
\* handle_msg invocations never overlap; connect() on a gateway that holds a
\* client returns at once: no authentication, no catalog query, no client
\* creation, no listen call, no subscription replay, nothing logged.
C12_OneClientOneThread ==
    /\ [](/\ Cardinality(AliveClients) <= 1
          /\ Cardinality(AliveThreads) <= 1
          /\ Cardinality(HandlingThreads) <= 1)
    /\ [][ConnectOnHeldClient =>
            /\ gw_pc' = "idle"
            /\ gw_op' = [Begin("connect") EXCEPT !.ret = "return"]
            /\ UNCHANGED <<gwSelf, gw_closed, gw_loaded, gw_clients,
                           gw_delivered, gw_contracts, gw_ticks, gw_handled>>
       ]_vars

\* connect() has returned as a no-op on a gateway whose one client is open
\* and whose listener is inside handle_msg.
C12_Witness ==
    /\ gw_pc = "idle"
    /\ gw_client # 0
    /\ gw_op = [Begin("connect") EXCEPT !.ret = "return"]
    /\ AliveClients = {gw_client}
    /\ HandlingThreads = {gw_thread}

====
